---- MODULE Spec2Model ----
(***************************************************************************)
(* Model of the Outlier "Task Count & EQ Reason" userscript (src/file.js). *)
(*                                                                         *)
(* State: the script's three closure variables (remainingTaskCount,        *)
(* emptyQueueReason, lastUrl), the browser state it reads and writes       *)
(* (window.location, the DOM elements with id "tm-outlier-task-count",     *)
(* the console), and the fallback requests it has in flight.               *)
(* One action per callback: the 500 ms interval callback, the load         *)
(* listener of the XMLHttpRequest wrapper, the promise chain of the fetch  *)
(* wrapper, the promise chain of pollForMissingValues, the drag listeners; *)
(* plus the host page's own steps (navigation, removal of the element).    *)
(***************************************************************************)
EXTENDS Integers, Sequences, FiniteSets, TLC

(***************************************************************************)
(* JavaScript / JSON values, as tagged tuples.                             *)
(***************************************************************************)
Null == <<"null">>
Undefined == <<"undefined">>
Num(n) == <<"number", n>>
Str(s) == <<"string", s>>
Arr(items) == <<"array", items>>
Obj(fields) == <<"object", fields>>

IsArray(v) == v[1] = "array"
IsObject(v) == v[1] = "object"

\* ToBoolean: null, undefined, "" and 0 are falsy, objects and arrays truthy.
Truthy(v) ==
    /\ v # Null
    /\ v # Undefined
    /\ v # Str("")
    /\ v # Num(0)

\* v.k on a value that is neither null nor undefined.
Get(v, k) == IF IsObject(v) /\ k \in DOMAIN v[2] THEN v[2][k] ELSE Undefined

\* v.k throws a TypeError exactly when v is null or undefined.
GetThrows(v) == v = Null \/ v = Undefined

\* a || b
OrElse(a, b) == IF Truthy(a) THEN a ELSE b

\* String(v) as a template literal interpolates it.
ToText(v) ==
    CASE v[1] = "number" -> ToString(v[2])
      [] v[1] = "string" -> v[2]
      [] OTHER -> v[1]

(***************************************************************************)
(* Bounds of the model.                                                    *)
(***************************************************************************)
\* fallback requests in flight at once
MaxInFlight == 2
\* records in a bulk-remaining-tasks body
MaxRecords == 2
\* project keys in an emptyQueueReasons mapping
MaxKeys == 1
\* pixels the overlay is dragged away from where it was created
MaxDrag == 1

(***************************************************************************)
(* window.location: pathname as its segments, and the rest of the href.    *)
(***************************************************************************)
HostOrigin == "https://app.outlier.ai"
ProjectIds == {"P1", "P2"}

Loc(path, query) == [path |-> path, query |-> query]

Locations ==
    { Loc(<<"projects", "P1">>, ""),
      Loc(<<"projects", "P1">>, "?pageLoadId=1"),
      Loc(<<"projects", "P2">>, ""),
      Loc(<<"projects", "history">>, ""),
      Loc(<<"dashboard">>, "") }

\* pathname.split('/')[i]: parts[0] is the empty string before the leading
\* slash, parts[i] the i-th segment, undefined past the end.
Part(path, i) ==
    IF i = 0 THEN Str("")
    ELSE IF i <= Len(path) THEN Str(path[i]) ELSE Undefined

isProjectPage(loc) ==
    /\ Part(loc.path, 1) = Str("projects")
    /\ Truthy(Part(loc.path, 2))
    /\ Part(loc.path, 2) # Str("history")

getProjectIdFromURL(loc) ==
    IF ~isProjectPage(loc) THEN Null ELSE OrElse(Part(loc.path, 2), Null)

(***************************************************************************)
(* The overlay: the DOM elements with id "tm-outlier-task-count", in       *)
(* document order. getElementById returns the first one.                   *)
(***************************************************************************)
InitialTop == 10
InitialLeft == 10

TextOf(count, reason) ==
    [tasks |-> IF count # Null THEN ToText(count) ELSE "N/A",
     reason |-> IF reason # Null THEN ToText(reason) ELSE "N/A"]

NewTextbox == [value |-> [tasks |-> "", reason |-> ""],
               top |-> InitialTop, left |-> InitialLeft]

RemoveFirst(dom) == IF dom = <<>> THEN dom ELSE Tail(dom)

SetValue(dom, text) == [dom EXCEPT ![1].value = text]

\* faulty variant of updateTextbox: creates the element without looking for
\* an existing one
updateTextbox_AlwaysCreates(loc, count, reason, dom) ==
    IF ~isProjectPage(loc)
    THEN RemoveFirst(dom)
    ELSE SetValue(<<NewTextbox>> \o dom, TextOf(count, reason))

updateTextbox(loc, count, reason, dom) ==
    IF ~isProjectPage(loc)
    THEN RemoveFirst(dom)
    ELSE SetValue(IF dom = <<>> THEN <<NewTextbox>> ELSE dom,
                  TextOf(count, reason))

(***************************************************************************)
(* Request URLs: origin ("" when the page gave a relative URL), path       *)
(* segments, query string.                                                 *)
(***************************************************************************)
Url(origin, path, query) == [origin |-> origin, path |-> path, query |-> query]

BulkPath == <<"internal", "user-projects", "bulk-remaining-tasks">>
UserPath == <<"internal", "logged_in_user">>

\* segments the lookahead (?!history) rejects: those that start with "history"
HistoryPrefixed == {"history", "history2"}

\* response.url: the absolute URL the response was fetched from
ResponseUrl(url) ==
    IF url.origin = "" THEN [url EXCEPT !.origin = HostOrigin] ELSE url

\* url.includes("/internal/user-projects/bulk-remaining-tasks")
IncludesBulk(url) ==
    \E i \in 1..Len(url.path) :
        /\ i + 2 <= Len(url.path)
        /\ SubSeq(url.path, i, i + 2) = BulkPath

\* /\/internal\/logged_in_user(\?.*)?$/
MatchesUser(url) ==
    /\ Len(url.path) >= 2
    /\ SubSeq(url.path, Len(url.path) - 1, Len(url.path)) = UserPath

\* /^https:\/\/app\.outlier\.ai\/projects\/(?!history)[^\/?]+(\?.*)?$/
MatchesDetail(url) ==
    /\ url.origin = HostOrigin
    /\ Len(url.path) = 2
    /\ url.path[1] = "projects"
    /\ url.path[2] # ""
    /\ url.path[2] \notin HistoryPrefixed

\* the if / else-if chain both wrappers run on the URL they see
Classify(url) ==
    IF IncludesBulk(url) THEN "bulk"
    ELSE IF MatchesUser(url) THEN "user"
    ELSE IF MatchesDetail(url) THEN "detail"
    ELSE "none"

(***************************************************************************)
(* Response bodies: a text that JSON.parse rejects, or the value it        *)
(* parses to.                                                              *)
(***************************************************************************)
Body(parses, json) == [parses |-> parses, json |-> json]
Unparseable == Body(FALSE, Undefined)

EmptyObject == Obj([k \in {} |-> Null])

CountValues == {Num(0), Num(5)}

Records ==
    {Obj([projectId |-> Str(p), count |-> c]) : p \in ProjectIds, c \in CountValues}
    \cup {Obj([projectId |-> Str(p)]) : p \in ProjectIds}

RecordLists == UNION {[1..n -> Records] : n \in 0..MaxRecords}

BulkBodies ==
    {Body(TRUE, Arr(l)) : l \in RecordLists}
    \cup {Unparseable, Body(TRUE, EmptyObject), Body(TRUE, Arr(<<Null>>))}

\* the per-project entries of emptyQueueReasons
SubMaps ==
    { EmptyObject,
      Obj("-1" :> Str("A")),
      Obj("4" :> Str("B")),
      Obj(("-1" :> Str("A")) @@ ("4" :> Str("B"))),
      Obj(("-1" :> Str("")) @@ ("4" :> Str("B"))),
      Obj("-1" :> Str("")) }

Mappings ==
    UNION {[K -> SubMaps] : K \in {S \in SUBSET ProjectIds : Cardinality(S) <= MaxKeys}}

UserObject(m) ==
    Obj([lastEmptyQueueEvent |-> Obj([emptyQueueReasons |-> Obj(m)])])

UserBodies ==
    {Body(TRUE, UserObject(m)) : m \in Mappings}
    \cup {Unparseable, Body(TRUE, Null), Body(TRUE, EmptyObject),
          Body(TRUE, Obj([lastEmptyQueueEvent |-> EmptyObject]))}

DetailBodies ==
    {Body(TRUE, Arr(<<EmptyObject, UserObject(m)>>)) : m \in Mappings}
    \cup {Unparseable, Body(TRUE, EmptyObject), Body(TRUE, Arr(<<EmptyObject>>)),
          Body(TRUE, Arr(<<EmptyObject, Null>>)),
          Body(TRUE, Arr(<<EmptyObject, EmptyObject>>))}

BulkUrl == Url(HostOrigin, BulkPath, "")
UserUrl == Url(HostOrigin, UserPath, "")
DetailUrl == Url(HostOrigin, <<"projects", "P1">>, "?pageLoadId=1")
OtherUrl == Url(HostOrigin, <<"internal", "experiments">>, "")

\* second path segments of the URLs under /projects/
ProjectSegments == ProjectIds \cup HistoryPrefixed

Queries == {"", "?pageLoadId=1"}

\* /projects/<segment>, asked for by absolute or by relative URL
DetailUrls ==
    {Url(o, <<"projects", id>>, q) :
        o \in {HostOrigin, ""}, id \in ProjectSegments, q \in Queries}

\* the two /internal/ endpoints asked for by relative URL
RelativeBulkUrl == Url("", BulkPath, "")
RelativeUserUrl == Url("", UserPath, "")

TrafficUrls ==
    {BulkUrl, UserUrl, DetailUrl, OtherUrl, RelativeBulkUrl, RelativeUserUrl}
    \cup DetailUrls

\* the responses the host page's own traffic brings: URL and body
Traffic ==
    ({BulkUrl, RelativeBulkUrl} \X BulkBodies)
    \cup ({UserUrl, RelativeUserUrl} \X UserBodies)
    \cup (({DetailUrl} \cup DetailUrls) \X DetailBodies)
    \cup ({OtherUrl} \X {Unparseable})

(***************************************************************************)
(* What a handler does, given the project id it reads and the data: which  *)
(* store fields it assigns (Keep: none), whether it calls updateTextbox,   *)
(* whether it ends in console.error.                                       *)
(***************************************************************************)
Keep == <<"keep">>

Effect(count, reason, refresh, logged) ==
    [count |-> count, reason |-> reason, refresh |-> refresh, logged |-> logged]

NoEffect == Effect(Keep, Keep, FALSE, FALSE)
LogsError == Effect(Keep, Keep, FALSE, TRUE)
\* faulty variant of SetsCount: the count is stored without a refresh
SetsCount_NoRefresh(c) == Effect(c, Keep, FALSE, FALSE)

\* remainingTaskCount = c; updateTextbox();
SetsCount(c) == Effect(c, Keep, TRUE, FALSE)
\* emptyQueueReason = r; updateTextbox();
SetsReason(r) == Effect(Keep, r, TRUE, FALSE)

\* data.find(item => item.projectId === pid): the first match, undefined if
\* there is none; the callback throws on a null item it reaches
RECURSIVE Find(_, _)
Find(items, pid) ==
    IF items = <<>> THEN [threw |-> FALSE, value |-> Undefined]
    ELSE IF GetThrows(Head(items)) THEN [threw |-> TRUE, value |-> Undefined]
    ELSE IF Get(Head(items), "projectId") = pid
         THEN [threw |-> FALSE, value |-> Head(items)]
         ELSE Find(Tail(items), pid)

\* faulty variant of applyRecord: the count is tested for truthiness
applyRecord_Truthy(found) ==
    IF found.threw THEN LogsError
    ELSE IF Truthy(found.value) /\ Truthy(Get(found.value, "count"))
         THEN SetsCount(Get(found.value, "count"))
         ELSE NoEffect

\* if (projectData && projectData.count !== undefined) { ... }
applyRecord(found) ==
    IF found.threw THEN LogsError
    ELSE IF Truthy(found.value) /\ Get(found.value, "count") # Undefined
         THEN SetsCount(Get(found.value, "count"))
         ELSE NoEffect

\* reasons[pid]["-1"] || reasons[pid]["4"] || 'N/A', or 'N/A' without an entry
resolveReason(reasons, pid) ==
    IF Truthy(Get(reasons, pid[2]))
    THEN OrElse(OrElse(Get(Get(reasons, pid[2]), "-1"),
                       Get(Get(reasons, pid[2]), "4")),
                Str("N/A"))
    ELSE Str("N/A")

\* faulty variant of interceptBulk: takes the first record of the list
\* instead of the one whose projectId is pid
interceptBulk_FirstRecord(pid, data) ==
    IF ~IsArray(data) THEN NoEffect
    ELSE IF ~Truthy(pid) THEN NoEffect
    ELSE IF data[2] = <<>> THEN NoEffect
    ELSE IF GetThrows(data[2][1]) THEN LogsError
    ELSE applyRecord([threw |-> FALSE, value |-> data[2][1]])

\* bulk-remaining-tasks branch of the wrappers; pid is getProjectIdFromURL()
interceptBulk(pid, data) ==
    IF ~IsArray(data) THEN NoEffect
    ELSE IF ~Truthy(pid) THEN NoEffect
    ELSE applyRecord(Find(data[2], pid))

\* logged_in_user branch of the wrappers
interceptUser(pid, data) ==
    IF /\ Truthy(data)
       /\ Truthy(Get(data, "lastEmptyQueueEvent"))
       /\ Truthy(Get(Get(data, "lastEmptyQueueEvent"), "emptyQueueReasons"))
    THEN IF Truthy(pid)
         THEN SetsReason(resolveReason(
                  Get(Get(data, "lastEmptyQueueEvent"), "emptyQueueReasons"), pid))
         ELSE NoEffect
    ELSE NoEffect

\* /projects/<id> branch of the wrappers
interceptDetail(pid, data) ==
    IF ~(Truthy(pid) /\ IsArray(data) /\ Len(data[2]) > 1) THEN NoEffect
    ELSE IF GetThrows(data[2][2]) THEN LogsError
    ELSE IF /\ Truthy(Get(data[2][2], "lastEmptyQueueEvent"))
            /\ Truthy(Get(Get(data[2][2], "lastEmptyQueueEvent"), "emptyQueueReasons"))
         THEN SetsReason(resolveReason(
                  Get(Get(data[2][2], "lastEmptyQueueEvent"), "emptyQueueReasons"), pid))
         ELSE NoEffect

\* faulty variant of intercept: a body that does not parse clears the store
intercept_ParseErrorClears(class, pid, body) ==
    IF class = "none" THEN NoEffect
    ELSE IF ~body.parses THEN Effect(Null, Null, TRUE, TRUE)
    ELSE CASE class = "bulk" -> interceptBulk(pid, body.json)
           [] class = "user" -> interceptUser(pid, body.json)
           [] class = "detail" -> interceptDetail(pid, body.json)

\* one branch of a wrapper on a response body: a body that does not parse is
\* caught and logged
intercept(class, pid, body) ==
    IF class = "none" THEN NoEffect
    ELSE IF ~body.parses THEN LogsError
    ELSE CASE class = "bulk" -> interceptBulk(pid, body.json)
           [] class = "user" -> interceptUser(pid, body.json)
           [] class = "detail" -> interceptDetail(pid, body.json)

\* window.fetch's then callback: classifies response.url
fetchObserves(pid, url, body) == intercept(Classify(ResponseUrl(url)), pid, body)

\* the load listener of XMLHttpRequest.prototype.send: classifies this._url
xhrObserves(pid, url, body) == intercept(Classify(url), pid, body)

\* faulty variant of fetchSettles: the wrapper reads the body of the response
\* itself, not of a clone, so the caller gets a response whose body is used
fetchSettles_ReadsBody(orig, class) ==
    IF orig = "failure" THEN "failure"
    ELSE IF class = "none" THEN "response" ELSE "response, body used"

\* what the promise window.fetch returns settles with, given what the
\* original fetch settled with ("response": fulfilled with the response, its
\* body unread; "failure": rejected): the wrapper reads only a clone and
\* returns the response, and has no rejection handler
fetchSettles(orig, class) ==
    IF orig = "failure" THEN "failure" ELSE "response"

\* faulty variant of pollThen: the handler also stores the projectId of the
\* record it found as the reason
pollThen_WritesReason(pid, body) ==
    IF ~body.parses THEN LogsError
    ELSE IF IsArray(body.json)
         THEN IF applyRecord(Find(body.json[2], pid)).count # Keep
              THEN Effect(applyRecord(Find(body.json[2], pid)).count, pid, TRUE, FALSE)
              ELSE applyRecord(Find(body.json[2], pid))
         ELSE NoEffect

\* the then chain of pollForMissingValues on its response body; pid is the
\* project id captured when the request was issued
pollThen(pid, body) ==
    IF ~body.parses THEN LogsError
    ELSE IF IsArray(body.json) THEN applyRecord(Find(body.json[2], pid))
    ELSE NoEffect

(***************************************************************************)
(* The state store and the overlay, and a handler's effect on them.        *)
(***************************************************************************)
Store(count, reason, dom, logged) ==
    [count |-> count, reason |-> reason, dom |-> dom, logged |-> logged]

Perform(S, loc, e) ==
    Store(IF e.count = Keep THEN S.count ELSE e.count,
          IF e.reason = Keep THEN S.reason ELSE e.reason,
          IF e.refresh
          THEN updateTextbox(loc,
                             IF e.count = Keep THEN S.count ELSE e.count,
                             IF e.reason = Keep THEN S.reason ELSE e.reason,
                             S.dom)
          ELSE S.dom,
          S.logged \/ e.logged)

(***************************************************************************)
(* The steps the traffic can cause. Responses with the same effect cause   *)
(* the same step, so the steps are enumerated by effect: each set below is *)
(* the image of a handler over every response of the traffic, per project  *)
(* id the handler can read.                                                *)
(***************************************************************************)
PidValues == {getProjectIdFromURL(l) : l \in Locations}

FetchSteps ==
    {<<pv, fetchObserves(pv, t[1], t[2]),
       fetchSettles("response", Classify(ResponseUrl(t[1])))>> :
        pv \in PidValues, t \in Traffic}

FetchFailures ==
    {fetchSettles("failure", Classify(ResponseUrl(u))) : u \in TrafficUrls}

XhrSteps == {<<pv, xhrObserves(pv, t[1], t[2])>> : pv \in PidValues, t \in Traffic}

\* a fallback response: the wrapper's handler, then pollForMissingValues' own
FallbackSteps ==
    {<<pv, p, fetchObserves(pv, BulkUrl, b), pollThen(Str(p), b)>> :
        pv \in PidValues, p \in ProjectIds, b \in BulkBodies}

VARIABLES
    location,            \* window.location
    lastUrl,             \* lastUrl
    remainingTaskCount,  \* remainingTaskCount
    emptyQueueReason,    \* emptyQueueReason
    overlay,             \* elements with id tm-outlier-task-count
    inflight,            \* fallback requests not yet settled, per project id
    consoleErrors,       \* whether console.error has been called
    last,                \* the callback that ran last, and what its caller got
    dragged              \* where the last drag left the overlay

vars == <<location, lastUrl, remainingTaskCount, emptyQueueReason, overlay,
          inflight, consoleErrors, last, dragged>>

Step(op) == [op |-> op, orig |-> "none", got |-> "none"]

Init ==
    /\ location \in Locations
    /\ lastUrl = location
    /\ remainingTaskCount = Null
    /\ emptyQueueReason = Null
    /\ overlay = <<>>
    /\ inflight = [p \in ProjectIds |-> 0]
    /\ consoleErrors = FALSE
    /\ last = Step("event")
    /\ dragged = [top |-> InitialTop, left |-> InitialLeft]

RECURSIVE SumOver(_, _)
SumOver(f, S) ==
    IF S = {} THEN 0
    ELSE LET x == CHOOSE x \in S : TRUE IN f[x] + SumOver(f, S \ {x})

InFlightTotal == SumOver(inflight, ProjectIds)

(***************************************************************************)
(* The host page navigates (history.pushState): only the location changes. *)
(***************************************************************************)
Navigate(u) ==
    /\ u # location
    /\ location' = u
    /\ last' = Step("event")
    /\ UNCHANGED <<lastUrl, remainingTaskCount, emptyQueueReason, overlay,
                   inflight, consoleErrors, dragged>>

(***************************************************************************)
(* The host page replaces the DOM subtree that holds the overlay.          *)
(***************************************************************************)
HostRemovesOverlay ==
    /\ overlay # <<>>
    /\ overlay' = <<>>
    /\ last' = Step("event")
    /\ UNCHANGED <<location, lastUrl, remainingTaskCount, emptyQueueReason,
                   inflight, consoleErrors, dragged>>

(***************************************************************************)
(* setInterval callback.                                                   *)
(***************************************************************************)
\* faulty variant of TickReconcile: resets only when the project id changed,
\* not on every change of the href
TickReconcile_ResetsOnProjectChange(loc, prevUrl, count, reason, dom) ==
    IF loc # prevUrl
    THEN IF isProjectPage(loc)
         THEN IF getProjectIdFromURL(loc) # getProjectIdFromURL(prevUrl)
              THEN [count |-> Null, reason |-> Null,
                    dom |-> updateTextbox(loc, Null, Null, dom)]
              ELSE [count |-> count, reason |-> reason,
                    dom |-> updateTextbox(loc, count, reason, dom)]
         ELSE [count |-> count, reason |-> reason, dom |-> RemoveFirst(dom)]
    ELSE IF isProjectPage(loc) /\ dom = <<>>
         THEN [count |-> count, reason |-> reason,
               dom |-> updateTextbox(loc, count, reason, dom)]
         ELSE [count |-> count, reason |-> reason, dom |-> dom]

\* faulty variant of TickReconcile: a missing element is recreated by the
\* reset branch, so the store is cleared with it
TickReconcile_RecreateResets(loc, prevUrl, count, reason, dom) ==
    IF isProjectPage(loc) /\ (loc # prevUrl \/ dom = <<>>)
    THEN [count |-> Null, reason |-> Null,
          dom |-> updateTextbox(loc, Null, Null, dom)]
    ELSE IF loc # prevUrl
         THEN [count |-> count, reason |-> reason, dom |-> RemoveFirst(dom)]
         ELSE [count |-> count, reason |-> reason, dom |-> dom]

\* the state store and the overlay after the first if/else-if of the callback
TickReconcile(loc, prevUrl, count, reason, dom) ==
    IF loc # prevUrl
    THEN IF isProjectPage(loc)
         THEN [count |-> Null, reason |-> Null,
               dom |-> updateTextbox(loc, Null, Null, dom)]
         ELSE [count |-> count, reason |-> reason, dom |-> RemoveFirst(dom)]
    ELSE IF isProjectPage(loc) /\ dom = <<>>
         THEN [count |-> count, reason |-> reason,
               dom |-> updateTextbox(loc, count, reason, dom)]
         ELSE [count |-> count, reason |-> reason, dom |-> dom]

\* faulty variant of TickPolls: polls whatever the count is
TickPolls_IgnoresCount(loc, count) ==
    /\ isProjectPage(loc)
    /\ getProjectIdFromURL(loc) # Null

\* faulty variant of TickPolls: the test of the count is inverted
TickPolls_WhenKnown(loc, count) ==
    /\ isProjectPage(loc)
    /\ count # Null
    /\ getProjectIdFromURL(loc) # Null

\* faulty variant of TickPolls: no request while an earlier one is in flight
TickPolls_Deduplicates(loc, count) ==
    /\ isProjectPage(loc)
    /\ count = Null
    /\ getProjectIdFromURL(loc) # Null
    /\ InFlightTotal = 0

\* whether the callback goes on to call pollForMissingValues and it fetches
TickPolls(loc, count) ==
    /\ isProjectPage(loc)
    /\ count = Null
    /\ getProjectIdFromURL(loc) # Null

Tick ==
    LET r == TickReconcile(location, lastUrl, remainingTaskCount,
                           emptyQueueReason, overlay)
        polls == TickPolls(location, r.count)
        pid == getProjectIdFromURL(location)[2]
    IN  /\ polls => InFlightTotal < MaxInFlight
        /\ lastUrl' = location
        /\ remainingTaskCount' = r.count
        /\ emptyQueueReason' = r.reason
        /\ overlay' = r.dom
        /\ inflight' = IF polls THEN [inflight EXCEPT ![pid] = @ + 1]
                       ELSE inflight
        /\ last' = Step("tick")
        /\ UNCHANGED <<location, consoleErrors, dragged>>

Current == Store(remainingTaskCount, emptyQueueReason, overlay, consoleErrors)

Apply(S) ==
    \E r \in {S} :
        /\ remainingTaskCount' = r.count
        /\ emptyQueueReason' = r.reason
        /\ overlay' = r.dom
        /\ consoleErrors' = r.logged

(***************************************************************************)
(* A fetch call of the host page settles: the wrapper's then callback and  *)
(* the handler on the cloned body.                                         *)
(***************************************************************************)
PageFetchResolves(pv, e, got) ==
    /\ pv = getProjectIdFromURL(location)
    /\ Apply(Perform(Current, location, e))
    /\ last' = [op |-> "fetch", orig |-> "response", got |-> got]
    /\ UNCHANGED <<location, lastUrl, inflight, dragged>>

PageFetchRejects(got) ==
    /\ last' = [op |-> "fetch", orig |-> "failure", got |-> got]
    /\ UNCHANGED <<location, lastUrl, remainingTaskCount, emptyQueueReason,
                   overlay, inflight, consoleErrors, dragged>>

(***************************************************************************)
(* An XMLHttpRequest of the host page fires its load event.                *)
(***************************************************************************)
PageXhrLoads(pv, e) ==
    /\ pv = getProjectIdFromURL(location)
    /\ Apply(Perform(Current, location, e))
    /\ last' = Step("event")
    /\ UNCHANGED <<location, lastUrl, inflight, dragged>>

(***************************************************************************)
(* A fallback request issued for project p settles. It went through        *)
(* window.fetch, so the wrapper's bulk branch sees the response too.       *)
(***************************************************************************)
FallbackResolves(pv, p, e1, e2) ==
    /\ pv = getProjectIdFromURL(location)
    /\ inflight[p] > 0
    /\ inflight' = [inflight EXCEPT ![p] = @ - 1]
    /\ Apply(Perform(Perform(Current, location, e1), location, e2))
    /\ last' = Step("event")
    /\ UNCHANGED <<location, lastUrl, dragged>>

\* the request fails: the catch of pollForMissingValues logs it
FallbackRejects(p) ==
    /\ inflight[p] > 0
    /\ inflight' = [inflight EXCEPT ![p] = @ - 1]
    /\ Apply(Perform(Current, location, LogsError))
    /\ last' = Step("event")
    /\ UNCHANGED <<location, lastUrl, dragged>>

(***************************************************************************)
(* The user drags the overlay: mousedown, one mousemove by (dx, dy),       *)
(* mouseup.                                                                *)
(***************************************************************************)
DragDeltas == {<<1, 1>>, <<-1, -1>>}

elementDrag(el, dx, dy) == [el EXCEPT !.top = @ + dy, !.left = @ + dx]

Drag(dx, dy) ==
    /\ overlay # <<>>
    /\ elementDrag(overlay[1], dx, dy).top \in InitialTop..(InitialTop + MaxDrag)
    /\ elementDrag(overlay[1], dx, dy).left \in InitialLeft..(InitialLeft + MaxDrag)
    /\ overlay' = [overlay EXCEPT ![1] = elementDrag(@, dx, dy)]
    /\ dragged' = [top |-> elementDrag(overlay[1], dx, dy).top,
                   left |-> elementDrag(overlay[1], dx, dy).left]
    /\ last' = Step("event")
    /\ UNCHANGED <<location, lastUrl, remainingTaskCount, emptyQueueReason,
                   inflight, consoleErrors>>

Next ==
    \/ \E u \in Locations : Navigate(u)
    \/ HostRemovesOverlay
    \/ Tick
    \/ \E x \in FetchSteps : PageFetchResolves(x[1], x[2], x[3])
    \/ \E g \in FetchFailures : PageFetchRejects(g)
    \/ \E x \in XhrSteps : PageXhrLoads(x[1], x[2])
    \/ \E x \in FallbackSteps : FallbackResolves(x[1], x[2], x[3], x[4])
    \/ \E p \in ProjectIds : FallbackRejects(p)
    \/ \E d \in DragDeltas : Drag(d[1], d[2])

Spec == Init /\ [][Next]_vars

(***************************************************************************)
(* Properties.                                                             *)
(***************************************************************************)
OnProject(p) == getProjectIdFromURL(location) = Str(p)

\* a store field holds a value the overlay shows, rather than N/A
Known(v) == v # Null /\ v # Str("N/A")

\* what the overlay shows for a store field: the value, or N/A
Shown(v) == IF Known(v) THEN v ELSE Null

StoreUnchanged ==
    /\ Shown(remainingTaskCount') = Shown(remainingTaskCount)
    /\ Shown(emptyQueueReason') = Shown(emptyQueueReason)

\* the fallback request issued for p settles in this step
FallbackSettlesFor(p) == inflight'[p] < inflight[p]

\* a fallback request for p is issued in this step
FallbackIssuedFor(p) == inflight'[p] > inflight[p]

\* C1: a response to a request issued while project A was current that
\* settles while the location is project B # A leaves Remaining Task Count
\* and Empty Queue Reason unchanged.
C1_StaleResponseIgnored ==
    [][\A a \in ProjectIds, b \in ProjectIds :
          (a # b /\ OnProject(b) /\ FallbackSettlesFor(a)) => StoreUnchanged]_vars

\* C2: after a navigation from project P1 to project P2, no response is
\* applied to the state store before the poller's reset for P2 has run.
C2_ResetBeforeNewData ==
    [][(/\ isProjectPage(lastUrl)
        /\ isProjectPage(location)
        /\ getProjectIdFromURL(lastUrl) # getProjectIdFromURL(location)
        /\ last'.op # "tick")
       => StoreUnchanged]_vars

\* C3: after every poller tick the overlay exists exactly once on a project
\* page and not at all elsewhere, and there is never more than one overlay.
C3_OverlayMatchesPage ==
    /\ Len(overlay) <= 1
    /\ last.op = "tick" => Len(overlay) = (IF isProjectPage(location) THEN 1 ELSE 0)

\* C4 ------------------------------------------------------------------------
\* what the claim says a bulk body does to the count at project p: the count
\* of the first record whose projectId is p, or nothing (Keep) when there is
\* no such record or it has no count
ClaimedRecordIndexes(items, p) ==
    {i \in 1..Len(items) : items[i][2].projectId = Str(p)}

ClaimedCountUpdate(items, p) ==
    IF ClaimedRecordIndexes(items, p) = {} THEN Keep
    ELSE LET i == CHOOSE i \in ClaimedRecordIndexes(items, p) :
                      \A j \in ClaimedRecordIndexes(items, p) : i <= j
         IN  IF "count" \in DOMAIN items[i][2] THEN items[i][2].count ELSE Keep

\* per project id and record list: the effect of each wrapper, and the claim
BulkCases ==
    {<<p, fetchObserves(Str(p), BulkUrl, Body(TRUE, Arr(l))),
          xhrObserves(Str(p), BulkUrl, Body(TRUE, Arr(l))),
          ClaimedCountUpdate(l, p)>> :
        p \in ProjectIds, l \in RecordLists}

\* the store and the overlay after a handler with effect e has run now
After(e) == Perform(Current, location, e)

CountBecomes(S, update) ==
    S.count = (IF update = Keep THEN remainingTaskCount ELSE update)

\* C4: a bulk response observed (by either wrapper) while the current project
\* is P sets Remaining Task Count to the count of the record whose projectId
\* is P, whatever other records there are, and keeps the previous value when
\* no record has projectId P or that record has no count.
C4_BulkRecordOfCurrentProject ==
    \A x \in BulkCases :
        OnProject(x[1]) =>
            /\ CountBecomes(After(x[2]), x[4])
            /\ CountBecomes(After(x[3]), x[4])
            /\ After(x[2]).reason = emptyQueueReason
            /\ After(x[3]).reason = emptyQueueReason

\* a bulk response was observed on project P1 and its count is stored and shown
C4_Witness ==
    /\ last.op = "fetch"
    /\ OnProject("P1")
    /\ remainingTaskCount = Num(5)
    /\ overlay # <<>>
    /\ overlay[1].value.tasks = "5"

\* C5 ------------------------------------------------------------------------
\* what the claim says a mapping resolves to at project p
ClaimedReason(m, p) ==
    IF p \notin DOMAIN m THEN Null
    ELSE IF "-1" \in DOMAIN m[p][2] THEN m[p][2]["-1"]
    ELSE IF "4" \in DOMAIN m[p][2] THEN m[p][2]["4"]
    ELSE Null

ReasonCases ==
    {<<p, fetchObserves(Str(p), UserUrl, Body(TRUE, UserObject(m))),
          xhrObserves(Str(p), UserUrl, Body(TRUE, UserObject(m))),
          fetchObserves(Str(p), DetailUrl, Body(TRUE, Arr(<<EmptyObject, UserObject(m)>>))),
          xhrObserves(Str(p), DetailUrl, Body(TRUE, Arr(<<EmptyObject, UserObject(m)>>))),
          ClaimedReason(m, p)>> :
        p \in ProjectIds, m \in Mappings}

ReasonBecomes(r) == Shown(emptyQueueReason') = Shown(r)

\* C5: a response carrying emptyQueueReasons observed while the current
\* project is P sets Empty Queue Reason to the value at "-1" if that sub-key
\* is present, else the value at "4", else unknown; unknown when P is no key.
C5_ReasonResolution ==
    [][\A x \in ReasonCases :
          /\ PageFetchResolves(Str(x[1]), x[2], "response") => ReasonBecomes(x[6])
          /\ PageXhrLoads(Str(x[1]), x[3]) => ReasonBecomes(x[6])
          /\ PageFetchResolves(Str(x[1]), x[4], "response") => ReasonBecomes(x[6])
          /\ PageXhrLoads(Str(x[1]), x[5]) => ReasonBecomes(x[6])]_vars

\* C6 ------------------------------------------------------------------------
\* responses whose body does not parse or lacks the shape its endpoint has
MalformedBulk == {Unparseable, Body(TRUE, EmptyObject), Body(TRUE, Arr(<<Null>>))}

MalformedTraffic ==
    ({BulkUrl} \X MalformedBulk)
    \cup ({UserUrl} \X {Unparseable, Body(TRUE, Null), Body(TRUE, EmptyObject),
                        Body(TRUE, Obj([lastEmptyQueueEvent |-> EmptyObject]))})
    \cup ({DetailUrl} \X {Unparseable, Body(TRUE, EmptyObject),
                          Body(TRUE, Arr(<<EmptyObject>>)),
                          Body(TRUE, Arr(<<EmptyObject, Null>>)),
                          Body(TRUE, Arr(<<EmptyObject, EmptyObject>>))})

MalformedCases ==
    {<<pv, fetchObserves(pv, t[1], t[2]), xhrObserves(pv, t[1], t[2]),
       fetchSettles("response", Classify(ResponseUrl(t[1])))>> :
        pv \in PidValues, t \in MalformedTraffic}

MalformedFallbackCases ==
    {<<pv, p, fetchObserves(pv, BulkUrl, b), pollThen(Str(p), b)>> :
        pv \in PidValues, p \in ProjectIds, b \in MalformedBulk}

StoreSame(S) ==
    /\ S.count = remainingTaskCount
    /\ S.reason = emptyQueueReason

RefreshedOnce ==
    updateTextbox(location, remainingTaskCount, emptyQueueReason, overlay)

RefreshedTwice ==
    updateTextbox(location, remainingTaskCount, emptyQueueReason, RefreshedOnce)

\* C8: calling updateTextbox twice in a row, location and store unchanged,
\* leaves the same overlay elements with the same text as calling it once:
\* none off a project page, one on it.
C8_UpdateTextboxIdempotent ==
    /\ RefreshedTwice = RefreshedOnce
    /\ Len(RefreshedOnce) = (IF isProjectPage(location) THEN 1 ELSE 0)

\* updateTextbox has run on a project page with a known count
C8_Witness ==
    /\ isProjectPage(location)
    /\ overlay # <<>>
    /\ Known(remainingTaskCount)
    /\ overlay[1].value = TextOf(remainingTaskCount, emptyQueueReason)

\* C9 ------------------------------------------------------------------------
\* C9: a fallback request is issued only on a project page, with Remaining
\* Task Count unknown at the moment of issue, for the project id current at
\* that moment; a step that leaves the count known issues none.
C9_FallbackOnlyWhenUnknown ==
    [][\A p \in ProjectIds :
          FallbackIssuedFor(p) =>
              /\ last'.op = "tick"
              /\ isProjectPage(location')
              /\ remainingTaskCount' = Null
              /\ getProjectIdFromURL(location') = Str(p)]_vars

\* a tick has just issued a fallback request
C9_Witness ==
    /\ last.op = "tick"
    /\ InFlightTotal > 0
    /\ remainingTaskCount = Null
    /\ isProjectPage(location)

\* C10 -----------------------------------------------------------------------
\* bulk bodies whose record for p (the first one with that projectId) has a count
BodiesWithCountFor(p) ==
    {Body(TRUE, Arr(l)) : l \in {r \in RecordLists : ClaimedCountUpdate(r, p) # Keep}}

SuccessSteps ==
    UNION {{<<pv, p, fetchObserves(pv, BulkUrl, b), pollThen(Str(p), b)>> :
               pv \in PidValues, b \in BodiesWithCountFor(p)} : p \in ProjectIds}

FailureSteps ==
    {<<pv, p, fetchObserves(pv, BulkUrl, Unparseable), pollThen(Str(p), Unparseable)>> :
        pv \in PidValues, p \in ProjectIds}

\* a fallback request for p succeeds with a record for p that has a count
FallbackSucceeds(p) ==
    \E x \in SuccessSteps : x[2] = p /\ FallbackResolves(x[1], p, x[3], x[4])

\* a fallback request fails: network failure or unparseable body
FallbackFails(p) ==
    \/ FallbackRejects(p)
    \/ \E x \in FailureSteps : x[2] = p /\ FallbackResolves(x[1], p, x[3], x[4])

\* the script on a quiet page: the host page navigates and may drop the
\* overlay, but sends no requests of its own (those can only make the count
\* known sooner) and the user does not drag
QuietNext ==
    \/ \E u \in Locations : Navigate(u)
    \/ HostRemovesOverlay
    \/ Tick
    \/ \E x \in FallbackSteps : FallbackResolves(x[1], x[2], x[3], x[4])
    \/ \E p \in ProjectIds : FallbackRejects(p)

\* the interval keeps firing (setInterval), and of the fallback requests for
\* a project one eventually succeeds
LiveSpec ==
    /\ Init
    /\ [][QuietNext]_vars
    /\ WF_vars(Tick)
    /\ \A p \in ProjectIds : SF_vars(FallbackSucceeds(p))

ProjectLocations == {l \in Locations : isProjectPage(l)}

\* C10: a failed fallback request leaves the store unchanged; a tick on a
\* project page with the count unknown issues a request; and if the location
\* stays on a project page, Remaining Task Count eventually becomes known.
C10_FallbackRetriedUntilKnown ==
    /\ [][\A p \in ProjectIds :
              FallbackFails(p) => UNCHANGED <<remainingTaskCount, emptyQueueReason>>]_vars
    /\ [][(last'.op = "tick" /\ isProjectPage(location') /\ remainingTaskCount' = Null)
              => \E p \in ProjectIds : FallbackIssuedFor(p) /\ OnProject(p)]_vars
    /\ \A l \in ProjectLocations :
           []([](location = l) => <>(remainingTaskCount # Null))

\* a fallback request failed, the count is still unknown and the next tick
\* has issued another request
C10_Witness ==
    /\ consoleErrors
    /\ last.op = "tick"
    /\ remainingTaskCount = Null
    /\ isProjectPage(location)
    /\ location = lastUrl
    /\ InFlightTotal > 0

\* C11 -----------------------------------------------------------------------
\* C11: fallback requests are neither deduplicated nor cancelled: a tick on
\* project p with the count unknown issues a request also while earlier ones
\* for p are in flight; a request leaves flight only by settling, one at a
\* time; and a response that settles with a counted record is applied
\* whatever the store holds and whatever else is in flight.
C11_FallbackNotDeduplicated ==
    /\ [][\A p \in ProjectIds :
              (/\ last'.op = "tick"
               /\ getProjectIdFromURL(location') = Str(p)
               /\ remainingTaskCount' = Null
               /\ inflight[p] >= 1)
              => inflight' = [inflight EXCEPT ![p] = @ + 1]]_vars
    /\ [][\A p \in ProjectIds :
              FallbackSettlesFor(p) =>
                  /\ inflight' = [inflight EXCEPT ![p] = @ - 1]
                  /\ last'.op = "event"
                  /\ UNCHANGED <<location, lastUrl>>]_vars
    /\ [](\A x \in FallbackSteps :
              (/\ x[4].count # Keep
               /\ x[1] = getProjectIdFromURL(location)
               /\ inflight[x[2]] >= 1)
              => Perform(After(x[3]), location, x[4]).count = x[4].count)

\* two fallback requests for P1 are in flight at once, the second just issued
C11_Witness ==
    /\ inflight["P1"] = 2
    /\ last.op = "tick"
    /\ OnProject("P1")

\* C12 -----------------------------------------------------------------------
\* C12: a tick that finds the location changed since the previous tick, the
\* new one a project page, clears both store fields, leaves the overlay in
\* place showing N/A on both lines, and issues a fallback request for the
\* project of the new location; also when only the query string changed.
C12_TickResetsOnLocationChange ==
    [][(/\ last'.op = "tick"
        /\ location # lastUrl
        /\ isProjectPage(location))
       => /\ remainingTaskCount' = Null
          /\ emptyQueueReason' = Null
          /\ Len(overlay') = 1
          /\ overlay'[1].value = TextOf(Null, Null)
          /\ lastUrl' = location
          /\ \E p \in ProjectIds : OnProject(p) /\ FallbackIssuedFor(p)]_vars

\* a request for P2 is still in flight, the href is now P1 with a query
\* string, and the tick has reset the store and issued the request for P1
C12_Witness ==
    /\ last.op = "tick"
    /\ location = Loc(<<"projects", "P1">>, "?pageLoadId=1")
    /\ lastUrl = location
    /\ inflight = [p \in ProjectIds |-> 1]
    /\ remainingTaskCount = Null
    /\ emptyQueueReason = Null
    /\ overlay # <<>>
    /\ overlay[1].value = TextOf(Null, Null)

\* C13 -----------------------------------------------------------------------
\* C13: whenever the overlay element exists, its text is the rendering of the
\* current store: the count or N/A, the reason or N/A.
C13_OverlayShowsStore ==
    overlay # <<>> =>
        overlay[1].value = TextOf(remainingTaskCount, emptyQueueReason)

\* the overlay shows a count and a reason that responses have stored
C13_Witness ==
    /\ overlay # <<>>
    /\ remainingTaskCount = Num(0)
    /\ emptyQueueReason = Str("B")
    /\ overlay[1].value = [tasks |-> "0", reason |-> "B"]

\* C14 -----------------------------------------------------------------------
\* C14: a tick that finds the location unchanged, a project page, and no
\* overlay element creates exactly one, showing the current store, and leaves
\* both store fields as they are.
C14_TickRecreatesOverlay ==
    [][(/\ last'.op = "tick"
        /\ location = lastUrl
        /\ isProjectPage(location)
        /\ overlay = <<>>)
       => /\ Len(overlay') = 1
          /\ overlay'[1].value = TextOf(remainingTaskCount, emptyQueueReason)
          /\ overlay'[1].top = InitialTop
          /\ overlay'[1].left = InitialLeft
          /\ UNCHANGED <<remainingTaskCount, emptyQueueReason>>]_vars

\* values are stored, and a tick on the unchanged project page that issued no
\* request has left exactly one element, at the place where it is created
C14_Witness ==
    /\ last.op = "tick"
    /\ location = lastUrl
    /\ isProjectPage(location)
    /\ consoleErrors
    /\ Known(remainingTaskCount)
    /\ Known(emptyQueueReason)
    /\ InFlightTotal = 0
    /\ Len(overlay) = 1
    /\ overlay[1].top = InitialTop

\* C15 -----------------------------------------------------------------------
\* the script and the user alone: the host page navigates and sends requests
\* but never touches the overlay element
ScriptNext ==
    \/ \E u \in Locations : Navigate(u)
    \/ Tick
    \/ \E x \in FetchSteps : PageFetchResolves(x[1], x[2], x[3])
    \/ \E g \in FetchFailures : PageFetchRejects(g)
    \/ \E x \in XhrSteps : PageXhrLoads(x[1], x[2])
    \/ \E x \in FallbackSteps : FallbackResolves(x[1], x[2], x[3], x[4])
    \/ \E p \in ProjectIds : FallbackRejects(p)
    \/ \E d \in DragDeltas : Drag(d[1], d[2])

ScriptSpec == Init /\ [][ScriptNext]_vars

\* C15: the overlay, whenever it exists, is where the last drag left it (where
\* it is first created if there was no drag): ticks, navigations, responses
\* and refreshes do not move it.
C15_PositionOnlyByDrag ==
    overlay # <<>> =>
        /\ overlay[1].top = dragged.top
        /\ overlay[1].left = dragged.left

\* C16 -----------------------------------------------------------------------
\* per current project p, segment id, query and mapping: how the fetch wrapper
\* classifies a response from https://app.outlier.ai/projects/<id>, what it
\* does with it, and the reason the mapping resolves to
DetailCases ==
    {<<p, id,
       Classify(ResponseUrl(Url(HostOrigin, <<"projects", id>>, q))),
       fetchObserves(Str(p), Url(HostOrigin, <<"projects", id>>, q),
                     Body(TRUE, Arr(<<EmptyObject, UserObject(m)>>))),
       resolveReason(Obj(m), Str(p))>> :
        p \in ProjectIds, id \in ProjectSegments, q \in Queries, m \in Mappings}

\* C16: for every segment <id> that isProjectPage accepts as a project, a
\* response from https://app.outlier.ai/projects/<id>, with or without a
\* query string, is classified as the project-detail endpoint and its element
\* 1 resolves Empty Queue Reason.
C16_DetailPatternExcludesOnlyHistory ==
    \A x \in DetailCases :
        (OnProject(x[1]) /\ isProjectPage(Loc(<<"projects", x[2]>>, ""))) =>
            /\ x[3] = "detail"
            /\ After(x[4]).reason = x[5]

\* C17 -----------------------------------------------------------------------
\* the steps in which a wrapper observes a logged_in_user or /projects/<id>
\* response of the host page
ReasonTraffic == {t \in Traffic : Classify(ResponseUrl(t[1])) \in {"user", "detail"}}

ReasonFetchSteps ==
    {<<pv, fetchObserves(pv, t[1], t[2]),
       fetchSettles("response", Classify(ResponseUrl(t[1])))>> :
        pv \in PidValues, t \in ReasonTraffic}

ReasonXhrSteps == {<<pv, xhrObserves(pv, t[1], t[2])>> : pv \in PidValues, t \in ReasonTraffic}

\* per project id read: the reasons such an observation stores
ObservedReasons ==
    {<<x[1], x[2].reason>> : x \in ReasonFetchSteps}
    \cup {<<x[1], x[2].reason>> : x \in ReasonXhrSteps}

\* C17: Empty Queue Reason changes to a known value only in a step that is
\* neither a tick nor the settling of a fallback request, and only to a value
\* that a logged_in_user or /projects/<id> response resolves to for the
\* current project; a tick leaves it or clears it; a fallback response or
\* failure leaves it, in the wrapper and in the fallback handler alike.
C17_ReasonOnlyFromObservation ==
    /\ [][(emptyQueueReason' # emptyQueueReason /\ Known(emptyQueueReason'))
             => /\ <<getProjectIdFromURL(location), emptyQueueReason'>> \in ObservedReasons
                /\ last'.op # "tick"
                /\ inflight' = inflight]_vars
    /\ [][last'.op = "tick" => emptyQueueReason' \in {emptyQueueReason, Null}]_vars
    /\ [][(\E p \in ProjectIds : FallbackSettlesFor(p))
             => emptyQueueReason' = emptyQueueReason]_vars
    /\ [](\A x \in FallbackSteps : x[3].reason = Keep /\ x[4].reason = Keep)

\* the reason is known, the count is not, and a tick has kept the reason and
\* issued a fallback request
C17_Witness ==
    /\ last.op = "tick"
    /\ Known(emptyQueueReason)
    /\ remainingTaskCount = Null
    /\ InFlightTotal > 0
    /\ location = lastUrl

\* C18 -----------------------------------------------------------------------
\* per project id read and response of the traffic: the class the fetch
\* wrapper and the XMLHttpRequest wrapper give the request URL, and what each
\* does with the body
ObserverCases ==
    {<<pv, Classify(ResponseUrl(t[1])), Classify(t[1]),
       fetchObserves(pv, t[1], t[2]), xhrObserves(pv, t[1], t[2])>> :
        pv \in PidValues, t \in Traffic}

\* C18: for the same request URL, response body and current project, the
\* fetch wrapper and the XMLHttpRequest wrapper classify alike and leave the
\* store in the same state.
C18_WrappersEquivalent ==
    \A x \in ObserverCases :
        (Truthy(x[1]) /\ x[1] = getProjectIdFromURL(location)) =>
            /\ x[2] = x[3]
            /\ After(x[4]).count = After(x[5]).count
            /\ After(x[4]).reason = After(x[5]).reason

\* C19 -----------------------------------------------------------------------
\* per project p and bulk body whose record for p has count 0: what each
\* wrapper and the fallback handler do with it
ZeroCountCases ==
    {<<x[1], fetchObserves(Str(x[1]), BulkUrl, Body(TRUE, Arr(x[2]))),
             xhrObserves(Str(x[1]), BulkUrl, Body(TRUE, Arr(x[2]))),
             pollThen(Str(x[1]), Body(TRUE, Arr(x[2])))>> :
        x \in {y \in ProjectIds \X RecordLists : ClaimedCountUpdate(y[2], y[1]) = Num(0)}}

\* the store after handler effect e shows count 0 as known, and a tick that
\* follows on the same location issues no fallback request
KnownAsZero(S) ==
    /\ S.count = Num(0)
    /\ Len(S.dom) = 1
    /\ S.dom[1].value.tasks = "0"
    /\ ~TickPolls(location,
                  TickReconcile(location, location, S.count, S.reason, S.dom).count)

\* C19: a record of the current project with count 0 makes Remaining Task
\* Count known: the overlay shows 0, not N/A, and ticks on the same location
\* issue no fallback request while the count is 0.
C19_ZeroCountIsKnown ==
    /\ \A x \in ZeroCountCases :
           OnProject(x[1]) =>
               /\ KnownAsZero(After(x[2]))
               /\ KnownAsZero(After(x[3]))
               /\ KnownAsZero(After(x[4]))
    /\ (remainingTaskCount = Num(0) /\ location = lastUrl) =>
           /\ overlay # <<>> => overlay[1].value.tasks = "0"
           /\ ~TickPolls(location,
                         TickReconcile(location, lastUrl, remainingTaskCount,
                                       emptyQueueReason, overlay).count)

\* count 0 is stored and shown on P2, nothing is in flight, and a tick has
\* run without issuing a request
C19_Witness ==
    /\ last.op = "tick"
    /\ OnProject("P2")
    /\ location = lastUrl
    /\ remainingTaskCount = Num(0)
    /\ overlay # <<>>
    /\ overlay[1].value.tasks = "0"
    /\ InFlightTotal = 0
====
